---- MODULE Spec2Model ----
(***************************************************************************)
(* Definition-time conformance checking with the metaclass MetaAlgorithm   *)
(* of the notebook "Static Checking via Metaclasses" (two versions of the  *)
(* notebook: static-checking-via-metaclasses.ipynb and unnamed/part_000).  *)
(*                                                                         *)
(* The state is that of one interpreter session: the class objects that    *)
(* exist, the names bound to them, the class statement being executed, the *)
(* exception in flight and the instances created so far.                   *)
(***************************************************************************)
EXTENDS Naturals, Sequences, FiniteSets, TLC

VARIABLES
    notebook,   \* which version of the notebook defined MetaAlgorithm
    classes,    \* the class objects (descriptors) that exist
    namespace,  \* name -> id of the class object bound to it (0: unbound)
    attempt,    \* the class statement executed last: id, name, bases, attrs
    status,     \* per class statement: Unvalidated | Validated | Rejected
    error,      \* message of the RuntimeError in flight, or NoError
    stdout,     \* the message the except clause printed last
    halted,     \* an uncaught RuntimeError ended the session
    instances,  \* the objects created: the id of the class of each
    log         \* history: every call of MetaAlgorithm.__new__ and what it raised

vars == <<notebook, classes, namespace, attempt, status, error, stdout, halted,
          instances, log>>

----------------------------------------------------------------------------
\* Bounds of the model.

\* Class statements executed in one session.
MaxAttempts == 2

\* Objects created in one session.
MaxInstances == 1

----------------------------------------------------------------------------
\* Python values, by their type.

Notebooks == {"ipynb", "part_000"}

\* contributor = "Author"
StrValue == [type |-> "str"]

\* def train(rows, labels): two parameters
TrainArgs == 2

\* def classify(row): one parameter
ClassifyArgs == 1

\* A def in a class body, or a lambda, with its number of parameters
\* (__code__.co_argcount).
FunctionValue(argcount) == [type |-> "function", argcount |-> argcount]

\* a callable that is no FunctionType: train = len, train = print
BuiltinValue == [type |-> "builtin_function_or_method"]

Values ==
    {StrValue, BuiltinValue, FunctionValue(ClassifyArgs), FunctionValue(TrainArgs)}

\* isinstance(value, str), isinstance(value, types.FunctionType)
isinstance(value, typename) == value.type = typename

\* The names a class statement may give the class.
Names == {"Algorithm", "Guess"}

\* The attribute names of the API.
Keys == {"contributor", "train", "classify"}

\* The attrs dictionary a class body leaves: any of the keys, each with a value.
AttrTables == UNION {[S -> Values] : S \in SUBSET Keys}

\* The attributes of the conforming class Guess.
GuessAttrs ==
    [k \in Keys |-> CASE k = "contributor" -> StrValue
                     [] k = "train" -> FunctionValue(TrainArgs)
                     [] k = "classify" -> FunctionValue(ClassifyArgs)]

\* The class bodies of a session: Guess's, with any of its attributes left out
\* (class Algorithm: pass leaves them all out, the second Guess all but classify).
ClassBodies == {[k \in S |-> GuessAttrs[k]] : S \in SUBSET Keys}

NoError == "no error"

NoAttempt == [id |-> 0, name |-> "", bases |-> <<>>, attrs |-> <<>>]

----------------------------------------------------------------------------
\* type.__new__(cls, clsname, bases, attrs): the class object built from its
\* arguments, as they are.
type_new(cls, clsname, bases, attrs) ==
    [metaclass |-> cls, name |-> clsname, bases |-> bases, attrs |-> attrs]

\* Variants of MetaAlgorithm.__new__ as a slip in its code would leave it.

\* The contributor rule without its isinstance test.
MetaAlgorithm_new_AnyContributor(cls, clsname, bases, attrs) ==
    IF clsname # "Algorithm"
    THEN IF "contributor" \notin DOMAIN attrs
         THEN [raised |-> "missing contributor information"]
         ELSE IF "train" \notin DOMAIN attrs
                 \/ ~isinstance(attrs["train"], "function")
         THEN [raised |-> "missing training method"]
         ELSE IF "classify" \notin DOMAIN attrs
                 \/ ~isinstance(attrs["classify"], "function")
         THEN [raised |-> "missing classification method"]
         ELSE [raised |-> NoError,
               result |-> type_new(cls, clsname, bases, attrs)]
    ELSE [raised |-> NoError, result |-> type_new(cls, clsname, bases, attrs)]

\* The train rule left out.
MetaAlgorithm_new_NoTrainRule(cls, clsname, bases, attrs) ==
    IF clsname # "Algorithm"
    THEN IF "contributor" \notin DOMAIN attrs
            \/ ~isinstance(attrs["contributor"], "str")
         THEN [raised |-> "missing contributor information"]
         ELSE IF "classify" \notin DOMAIN attrs
                 \/ ~isinstance(attrs["classify"], "function")
         THEN [raised |-> "missing classification method"]
         ELSE [raised |-> NoError,
               result |-> type_new(cls, clsname, bases, attrs)]
    ELSE [raised |-> NoError, result |-> type_new(cls, clsname, bases, attrs)]

\* The classify rule testing 'train' a second time.
MetaAlgorithm_new_NoClassifyRule(cls, clsname, bases, attrs) ==
    IF clsname # "Algorithm"
    THEN IF "contributor" \notin DOMAIN attrs
            \/ ~isinstance(attrs["contributor"], "str")
         THEN [raised |-> "missing contributor information"]
         ELSE IF "train" \notin DOMAIN attrs
                 \/ ~isinstance(attrs["train"], "function")
         THEN [raised |-> "missing training method"]
         ELSE IF "train" \notin DOMAIN attrs
                 \/ ~isinstance(attrs["train"], "function")
         THEN [raised |-> "missing classification method"]
         ELSE [raised |-> NoError,
               result |-> type_new(cls, clsname, bases, attrs)]
    ELSE [raised |-> NoError, result |-> type_new(cls, clsname, bases, attrs)]

\* The rules applied to the base class as well.
MetaAlgorithm_new_NoExemption(cls, clsname, bases, attrs) ==
    IF "contributor" \notin DOMAIN attrs
       \/ ~isinstance(attrs["contributor"], "str")
    THEN [raised |-> "missing contributor information"]
    ELSE IF "train" \notin DOMAIN attrs
            \/ ~isinstance(attrs["train"], "function")
    THEN [raised |-> "missing training method"]
    ELSE IF "classify" \notin DOMAIN attrs
            \/ ~isinstance(attrs["classify"], "function")
    THEN [raised |-> "missing classification method"]
    ELSE [raised |-> NoError, result |-> type_new(cls, clsname, bases, attrs)]

\* The class built without the contributor string the rules have read.
MetaAlgorithm_new_DropsContributor(cls, clsname, bases, attrs) ==
    IF clsname # "Algorithm"
    THEN IF "contributor" \notin DOMAIN attrs
            \/ ~isinstance(attrs["contributor"], "str")
         THEN [raised |-> "missing contributor information"]
         ELSE IF "train" \notin DOMAIN attrs
                 \/ ~isinstance(attrs["train"], "function")
         THEN [raised |-> "missing training method"]
         ELSE IF "classify" \notin DOMAIN attrs
                 \/ ~isinstance(attrs["classify"], "function")
         THEN [raised |-> "missing classification method"]
         ELSE [raised |-> NoError,
               result |-> type_new(cls, clsname, bases,
                              [k \in DOMAIN attrs \ {"contributor"} |-> attrs[k]])]
    ELSE [raised |-> NoError, result |-> type_new(cls, clsname, bases, attrs)]

\* The train rule applied before the contributor rule.
MetaAlgorithm_new_TrainFirst(cls, clsname, bases, attrs) ==
    IF clsname # "Algorithm"
    THEN IF "train" \notin DOMAIN attrs
            \/ ~isinstance(attrs["train"], "function")
         THEN [raised |-> "missing training method"]
         ELSE IF "contributor" \notin DOMAIN attrs
                 \/ ~isinstance(attrs["contributor"], "str")
         THEN [raised |-> "missing contributor information"]
         ELSE IF "classify" \notin DOMAIN attrs
                 \/ ~isinstance(attrs["classify"], "function")
         THEN [raised |-> "missing classification method"]
         ELSE [raised |-> NoError,
               result |-> type_new(cls, clsname, bases, attrs)]
    ELSE [raised |-> NoError, result |-> type_new(cls, clsname, bases, attrs)]

\* MetaAlgorithm.__new__ of static-checking-via-metaclasses.ipynb: the error
\* raised, or the arguments handed to type.__new__.
MetaAlgorithm_new_ipynb(cls, clsname, bases, attrs) ==
    IF clsname # "Algorithm"
    THEN IF "contributor" \notin DOMAIN attrs
            \/ ~isinstance(attrs["contributor"], "str")
         THEN [raised |-> "missing contributor information"]
         ELSE IF "train" \notin DOMAIN attrs
                 \/ ~isinstance(attrs["train"], "function")
         THEN [raised |-> "missing training method"]
         ELSE IF "classify" \notin DOMAIN attrs
                 \/ ~isinstance(attrs["classify"], "function")
         THEN [raised |-> "missing classification method"]
         ELSE [raised |-> NoError,
               result |-> type_new(cls, clsname, bases, attrs)]
    ELSE [raised |-> NoError, result |-> type_new(cls, clsname, bases, attrs)]

\* MetaAlgorithm.__new__ of unnamed/part_000.
MetaAlgorithm_new_part_000(cls, clsname, bases, attrs) ==
    IF clsname # "Algorithm"
    THEN IF "contributor" \notin DOMAIN attrs
            \/ ~isinstance(attrs["contributor"], "str")
         THEN [raised |-> "missing contributor"]
         ELSE IF "train" \notin DOMAIN attrs
                 \/ ~isinstance(attrs["train"], "function")
         THEN [raised |-> "missing training method"]
         ELSE IF "classify" \notin DOMAIN attrs
                 \/ ~isinstance(attrs["classify"], "function")
         THEN [raised |-> "missing classification method"]
         ELSE [raised |-> NoError,
               result |-> type_new(cls, clsname, bases, attrs)]
    ELSE [raised |-> NoError, result |-> type_new(cls, clsname, bases, attrs)]

\* A variant that refuses a name that is already bound: the outcome would
\* depend on the session, not on the arguments alone.
MetaAlgorithm_new_RefusesRedefinition(nb, clsname, bases, attrs) ==
    IF clsname # "Algorithm" /\ namespace[clsname] # 0
    THEN [raised |-> "missing contributor information"]
    ELSE IF nb = "ipynb"
    THEN MetaAlgorithm_new_ipynb("MetaAlgorithm", clsname, bases, attrs)
    ELSE MetaAlgorithm_new_part_000("MetaAlgorithm", clsname, bases, attrs)

\* A variant that applies the rules to the attributes the class would have,
\* those inherited from its first base included.
MetaAlgorithm_new_LooksAtBases(nb, clsname, bases, attrs) ==
    LET inherited == IF bases = <<>> THEN <<>>
                     ELSE (CHOOSE c \in classes : c.id = bases[1]).attrs
        visible == [k \in DOMAIN attrs \cup DOMAIN inherited |->
                      IF k \in DOMAIN attrs THEN attrs[k] ELSE inherited[k]]
        r == IF nb = "ipynb"
             THEN MetaAlgorithm_new_ipynb("MetaAlgorithm", clsname, bases, visible)
             ELSE MetaAlgorithm_new_part_000("MetaAlgorithm", clsname, bases,
                                             visible)
    IN  IF r.raised # NoError THEN r
        ELSE [raised |-> NoError,
              result |-> type_new("MetaAlgorithm", clsname, bases, attrs)]

\* The MetaAlgorithm.__new__ of the notebook that was run.
MetaAlgorithm_new(nb, clsname, bases, attrs) ==
    IF nb = "ipynb"
    THEN MetaAlgorithm_new_ipynb("MetaAlgorithm", clsname, bases, attrs)
    ELSE MetaAlgorithm_new_part_000("MetaAlgorithm", clsname, bases, attrs)

----------------------------------------------------------------------------
\* The session.

Init ==
    /\ notebook \in Notebooks
    /\ classes = {}
    /\ namespace = [n \in Names |-> 0]
    /\ attempt = NoAttempt
    /\ status = <<>>
    /\ error = NoError
    /\ stdout = ""
    /\ halted = FALSE
    /\ instances = <<>>
    /\ log = {}

\* The bases a class statement can name: none, or one class bound to a name.
BasesChoices ==
    {<<>>} \cup {<<namespace[n]>> : n \in {m \in Names : namespace[m] # 0}}

\* No class statement is being executed and no exception is in flight.
Idle ==
    /\ ~halted
    /\ error = NoError
    /\ IF attempt.id = 0 THEN TRUE ELSE status[attempt.id] # "Unvalidated"

\* class <clsname>(<bases>, metaclass=MetaAlgorithm): <body>
\* The body has run and left attrs; the metaclass has not been called yet.
ClassStatement(clsname, bases, attrs) ==
    /\ Idle
    /\ attempt.id < MaxAttempts
    /\ attempt' = [id |-> attempt.id + 1, name |-> clsname,
                   bases |-> bases, attrs |-> attrs]
    /\ status' = Append(status, "Unvalidated")
    /\ UNCHANGED <<notebook, classes, namespace, error, stdout, halted,
                   instances, log>>

\* A variant of the class statement that builds and binds the class object
\* before the rules are applied, so that a rejected class exists all the same.
CallMetaclass_BuildsFirst ==
    /\ attempt.id # 0
    /\ status[attempt.id] = "Unvalidated"
    /\ LET r == MetaAlgorithm_new(notebook, attempt.name, attempt.bases,
                                  attempt.attrs)
       IN  /\ classes' = classes \cup
                  {[id |-> attempt.id, metaclass |-> "MetaAlgorithm",
                    name |-> attempt.name, bases |-> attempt.bases,
                    attrs |-> attempt.attrs]}
           /\ namespace' = [namespace EXCEPT ![attempt.name] = attempt.id]
           /\ IF r.raised # NoError
              THEN /\ error' = r.raised
                   /\ status' = [status EXCEPT ![attempt.id] = "Rejected"]
              ELSE /\ status' = [status EXCEPT ![attempt.id] = "Validated"]
                   /\ UNCHANGED error
           /\ log' = log \cup {[name |-> attempt.name, bases |-> attempt.bases,
                                attrs |-> attempt.attrs, raised |-> r.raised]}
    /\ UNCHANGED <<notebook, attempt, stdout, halted, instances>>

\* A variant of the class statement that unbinds the name when the metaclass
\* raises.
CallMetaclass_UnbindsOnFailure ==
    /\ attempt.id # 0
    /\ status[attempt.id] = "Unvalidated"
    /\ LET r == MetaAlgorithm_new(notebook, attempt.name, attempt.bases,
                                  attempt.attrs)
       IN  /\ IF r.raised # NoError
              THEN /\ error' = r.raised
                   /\ status' = [status EXCEPT ![attempt.id] = "Rejected"]
                   /\ namespace' = [namespace EXCEPT ![attempt.name] = 0]
                   /\ UNCHANGED classes
              ELSE /\ classes' = classes \cup
                          {[id |-> attempt.id,
                            metaclass |-> r.result.metaclass,
                            name |-> r.result.name,
                            bases |-> r.result.bases,
                            attrs |-> r.result.attrs]}
                   /\ namespace' =
                          [namespace EXCEPT ![attempt.name] = attempt.id]
                   /\ status' = [status EXCEPT ![attempt.id] = "Validated"]
                   /\ UNCHANGED error
           /\ log' = log \cup {[name |-> attempt.name, bases |-> attempt.bases,
                                attrs |-> attempt.attrs, raised |-> r.raised]}
    /\ UNCHANGED <<notebook, attempt, stdout, halted, instances>>

\* A variant of the class statement that binds the name only when the name is
\* not bound yet.
CallMetaclass_BindsOnce ==
    /\ attempt.id # 0
    /\ status[attempt.id] = "Unvalidated"
    /\ LET r == MetaAlgorithm_new(notebook, attempt.name, attempt.bases,
                                  attempt.attrs)
       IN  /\ IF r.raised # NoError
              THEN /\ error' = r.raised
                   /\ status' = [status EXCEPT ![attempt.id] = "Rejected"]
                   /\ UNCHANGED <<classes, namespace>>
              ELSE /\ classes' = classes \cup
                          {[id |-> attempt.id,
                            metaclass |-> r.result.metaclass,
                            name |-> r.result.name,
                            bases |-> r.result.bases,
                            attrs |-> r.result.attrs]}
                   /\ namespace' =
                          IF namespace[attempt.name] = 0
                          THEN [namespace EXCEPT ![attempt.name] = attempt.id]
                          ELSE namespace
                   /\ status' = [status EXCEPT ![attempt.id] = "Validated"]
                   /\ UNCHANGED error
           /\ log' = log \cup {[name |-> attempt.name, bases |-> attempt.bases,
                                attrs |-> attempt.attrs, raised |-> r.raised]}
    /\ UNCHANGED <<notebook, attempt, stdout, halted, instances>>

\* A variant of the class statement that applies the rules again and again
\* while they fail, instead of raising.
CallMetaclass_RetriesWhileFailing ==
    /\ attempt.id # 0
    /\ status[attempt.id] = "Unvalidated"
    /\ LET r == MetaAlgorithm_new(notebook, attempt.name, attempt.bases,
                                  attempt.attrs)
       IN  IF r.raised # NoError
           THEN UNCHANGED <<classes, namespace, status, error, log>>
           ELSE /\ classes' = classes \cup
                       {[id |-> attempt.id,
                         metaclass |-> r.result.metaclass,
                         name |-> r.result.name,
                         bases |-> r.result.bases,
                         attrs |-> r.result.attrs]}
                /\ namespace' = [namespace EXCEPT ![attempt.name] = attempt.id]
                /\ status' = [status EXCEPT ![attempt.id] = "Validated"]
                /\ log' = log \cup {[name |-> attempt.name,
                                     bases |-> attempt.bases,
                                     attrs |-> attempt.attrs,
                                     raised |-> r.raised]}
                /\ UNCHANGED error
    /\ UNCHANGED <<notebook, attempt, stdout, halted, instances>>

\* The call of MetaAlgorithm.__new__ that ends the class statement: it raises,
\* or it returns the class object, which the statement binds to the name.
CallMetaclass ==
    /\ attempt.id # 0
    /\ status[attempt.id] = "Unvalidated"
    /\ LET r == MetaAlgorithm_new(notebook, attempt.name, attempt.bases,
                                  attempt.attrs)
       IN  /\ IF r.raised # NoError
              THEN /\ error' = r.raised
                   /\ status' = [status EXCEPT ![attempt.id] = "Rejected"]
                   /\ UNCHANGED <<classes, namespace>>
              ELSE /\ classes' = classes \cup
                          {[id |-> attempt.id,
                            metaclass |-> r.result.metaclass,
                            name |-> r.result.name,
                            bases |-> r.result.bases,
                            attrs |-> r.result.attrs]}
                   /\ namespace' =
                          [namespace EXCEPT ![attempt.name] = attempt.id]
                   /\ status' = [status EXCEPT ![attempt.id] = "Validated"]
                   /\ UNCHANGED error
           /\ log' = log \cup {[name |-> attempt.name, bases |-> attempt.bases,
                                attrs |-> attempt.attrs, raised |-> r.raised]}
    /\ UNCHANGED <<notebook, attempt, stdout, halted, instances>>

\* A variant of the except clause that runs the failed class statement again,
\* as the same attempt.
Except_Retries ==
    /\ ~halted
    /\ error # NoError
    /\ stdout' = error
    /\ error' = NoError
    /\ status' = [status EXCEPT ![attempt.id] = "Unvalidated"]
    /\ UNCHANGED <<notebook, classes, namespace, attempt, halted, instances,
                   log>>

\* except RuntimeError as error: print('RuntimeError:', str(error))
Except ==
    /\ ~halted
    /\ error # NoError
    /\ stdout' = error
    /\ error' = NoError
    /\ UNCHANGED <<notebook, classes, namespace, attempt, status, halted,
                   instances, log>>

\* A class statement outside try/except: the RuntimeError ends the session.
Uncaught ==
    /\ ~halted
    /\ error # NoError
    /\ halted' = TRUE
    /\ UNCHANGED <<notebook, classes, namespace, attempt, status, error, stdout,
                   instances, log>>

\* <clsname>(): an object of the class bound to the name.
Instantiate(clsname) ==
    /\ Idle
    /\ namespace[clsname] # 0
    /\ Len(instances) < MaxInstances
    /\ instances' = Append(instances, namespace[clsname])
    /\ UNCHANGED <<notebook, classes, namespace, attempt, status, error, stdout,
                   halted, log>>

Next ==
    \/ \E clsname \in Names, attrs \in ClassBodies :
         \E bases \in BasesChoices : ClassStatement(clsname, bases, attrs)
    \/ CallMetaclass
    \/ Except
    \/ Uncaught
    \/ \E clsname \in Names : Instantiate(clsname)

Spec == Init /\ [][Next]_vars

\* The session with the interpreter going on with a class statement it has
\* begun: the metaclass call is synchronous, nothing else is scheduled between
\* the body and the call.
FairSpec == Spec /\ WF_vars(CallMetaclass)

----------------------------------------------------------------------------
\* One class statement, with any name, bases and attrs, in a session that has
\* run the notebook up to some cell.

\* class Algorithm(metaclass=MetaAlgorithm): pass
AlgorithmClass ==
    [id |-> 1, metaclass |-> "MetaAlgorithm", name |-> "Algorithm",
     bases |-> <<>>, attrs |-> <<>>]

\* class Guess(Algorithm): contributor = "Author"; def train ...; def classify ...
GuessClass ==
    [id |-> 2, metaclass |-> "MetaAlgorithm", name |-> "Guess",
     bases |-> <<1>>, attrs |-> GuessAttrs]

\* The classes after the cell of MetaAlgorithm, of Algorithm and of Guess.
NotebookPrefixes == {{}, {AlgorithmClass}, {AlgorithmClass, GuessClass}}

InitNew ==
    /\ notebook \in Notebooks
    /\ classes \in NotebookPrefixes
    /\ namespace = [n \in Names |->
                      IF \E c \in classes : c.name = n
                      THEN (CHOOSE c \in classes : c.name = n).id ELSE 0]
    /\ status = [i \in 1 .. Cardinality(classes) + 1 |->
                   IF i <= Cardinality(classes) THEN "Validated"
                   ELSE "Unvalidated"]
    /\ \E clsname \in Names, attrs \in AttrTables :
         \E bases \in {<<>>} \cup {<<c.id>> : c \in classes} :
            attempt = [id |-> Cardinality(classes) + 1, name |-> clsname,
                       bases |-> bases, attrs |-> attrs]
    /\ error = NoError
    /\ stdout = ""
    /\ halted = FALSE
    /\ instances = <<>>
    /\ log = {}

NextNew ==
    \/ CallMetaclass
    \/ Except
    \/ Uncaught
    \/ \E clsname \in Names : Instantiate(clsname)

SpecNew == InitNew /\ [][NextNew]_vars

----------------------------------------------------------------------------
\* What the properties below are stated with.

\* The class statement executed last has ended: its metaclass call returned or
\* raised.
Finished == attempt.id # 0 /\ status[attempt.id] # "Unvalidated"

NonRoot == attempt.name # "Algorithm"

\* The message of the RuntimeError the last class statement raised: still in
\* flight, or as the except clause printed it.
Raised == IF error # NoError THEN error ELSE stdout

\* The failure kind a message stands for.
FailureKind(message) ==
    CASE message \in {"missing contributor information", "missing contributor"}
             -> "MissingContributor"
      [] message = "missing training method" -> "MissingTrainMethod"
      [] message = "missing classification method" -> "MissingClassifyMethod"
      [] OTHER -> "none"

\* The last class statement failed with this kind and left no class object.
RejectedWith(kind) ==
    /\ status[attempt.id] = "Rejected"
    /\ FailureKind(Raised) = kind
    /\ \A c \in classes : c.id # attempt.id
    /\ namespace[attempt.name] # attempt.id

\* The class object the last class statement produced, exactly as type.__new__
\* builds it from the statement's name, bases and attrs.
Produced ==
    /\ status[attempt.id] = "Validated"
    /\ [id |-> attempt.id, metaclass |-> "MetaAlgorithm",
        name |-> attempt.name, bases |-> attempt.bases,
        attrs |-> attempt.attrs] \in classes
    /\ Cardinality({c \in classes : c.id = attempt.id}) = 1
    /\ namespace[attempt.name] = attempt.id

\* Python's callable(value): true of a function and of a builtin function.
callable(value) == value.type \in {"function", "builtin_function_or_method"}

HasStr(attrs, key) == key \in DOMAIN attrs /\ attrs[key].type = "str"

HasFunction(attrs, key) == key \in DOMAIN attrs /\ attrs[key].type = "function"

HasCallable(attrs, key) == key \in DOMAIN attrs /\ callable(attrs[key])

----------------------------------------------------------------------------
\* C1: a class statement for a name other than 'Algorithm' whose attrs have no
\* 'contributor', or a 'contributor' that is no string, fails with the
\* RuntimeError 'missing contributor...' and produces no class object, whatever
\* the other attributes are.
C1_MissingContributor ==
    (Finished /\ NonRoot /\ ~HasStr(attempt.attrs, "contributor"))
        => RejectedWith("MissingContributor")

\* A class with a function as contributor and both methods was rejected.
C1_Witness ==
    /\ Finished /\ NonRoot
    /\ "contributor" \in DOMAIN attempt.attrs
    /\ attempt.attrs["contributor"] = FunctionValue(ClassifyArgs)
    /\ HasFunction(attempt.attrs, "train")
    /\ HasFunction(attempt.attrs, "classify")
    /\ RejectedWith("MissingContributor")

\* C2: with a string contributor, a class statement (name other than
\* 'Algorithm') whose attrs have no 'train', or a 'train' that is not callable,
\* fails with 'missing training method', whatever 'classify' is.
C2_MissingTrainMethod ==
    (Finished /\ NonRoot /\ HasStr(attempt.attrs, "contributor")
              /\ ~HasCallable(attempt.attrs, "train"))
        => RejectedWith("MissingTrainMethod")

\* A class with a string under 'train' and a proper classify was rejected.
C2_Witness ==
    /\ Finished /\ NonRoot
    /\ HasStr(attempt.attrs, "contributor")
    /\ HasStr(attempt.attrs, "train")
    /\ HasFunction(attempt.attrs, "classify")
    /\ RejectedWith("MissingTrainMethod")

C4_RootExempt ==
    (Finished /\ ~NonRoot) => (Produced /\ error = NoError)

\* A class named Algorithm, derived from an existing class, whose attrs break
\* every rule, was produced.
C4_Witness ==
    /\ Finished /\ ~NonRoot
    /\ attempt.bases # <<>>
    /\ ~HasStr(attempt.attrs, "contributor")
    /\ ~HasCallable(attempt.attrs, "train")
    /\ ~HasCallable(attempt.attrs, "classify")
    /\ Produced

RuleOrder == <<"contributor", "train", "classify">>

RuleKind ==
    <<"MissingContributor", "MissingTrainMethod", "MissingClassifyMethod">>

Violated(attrs) ==
    {i \in 1 .. 3 : IF i = 1 THEN ~HasStr(attrs, RuleOrder[i])
                               ELSE ~HasCallable(attrs, RuleOrder[i])}

Earliest(S) == CHOOSE i \in S : \A j \in S : i <= j

\* C7: a class statement (name other than 'Algorithm') that breaks several
\* rules fails with the failure of the earliest one in the order contributor,
\* train, classify.
C7_FirstFailureWins ==
    (Finished /\ NonRoot /\ Cardinality(Violated(attempt.attrs)) >= 2)
        => RejectedWith(RuleKind[Earliest(Violated(attempt.attrs))])

\* The second Guess of the notebooks: only classify, so contributor and train
\* are both missing; it failed with the contributor's failure.
C7_Witness ==
    /\ Finished /\ attempt.name = "Guess"
    /\ DOMAIN attempt.attrs = {"classify"}
    /\ attempt.attrs["classify"] = FunctionValue(ClassifyArgs)
    /\ Violated(attempt.attrs) = {1, 2}
    /\ RejectedWith("MissingContributor")

\* C8: the train and classify rules ask for a callable value: with a string
\* contributor, a class statement (name other than 'Algorithm') whose 'train'
\* and 'classify' are callable passes, and a value fails these rules only when
\* it is absent or not callable.
C8_CallableSuffices ==
    (Finished /\ NonRoot /\ HasStr(attempt.attrs, "contributor")
              /\ HasCallable(attempt.attrs, "train")
              /\ HasCallable(attempt.attrs, "classify"))
        => status[attempt.id] = "Validated"

\* C6: an object is created only from a class whose class statement reached
\* Validated: a rejected (or unfinished) statement has no class object and no
\* object of it ever exists; and once the statement is Validated, creating an
\* object of the class is enabled.
C6_InstancesOnlyOfValidated ==
    /\ \A i \in 1 .. Len(status) :
          status[i] # "Validated" =>
             /\ \A c \in classes : c.id # i
             /\ \A n \in Names : namespace[n] # i
             /\ \A j \in 1 .. Len(instances) : instances[j] # i
    /\ \A j \in 1 .. Len(instances) :
          /\ instances[j] \in 1 .. Len(status)
          /\ status[instances[j]] = "Validated"
          /\ \E c \in classes : c.id = instances[j]
    /\ (Finished /\ status[attempt.id] = "Validated"
                 /\ Len(instances) < MaxInstances)
          => ENABLED Instantiate(attempt.name)

\* After a rejected class statement, an object of an earlier, validated class
\* exists, and none of the rejected one.
C6_Witness ==
    /\ Finished
    /\ status[attempt.id] = "Rejected"
    /\ Len(instances) > 0
    /\ \E i \in 1 .. Len(status) : status[i] = "Validated" /\ instances[1] = i

\* C9: a class statement that is rejected changes nothing: the error is in
\* flight to the code that ran the statement, which can catch it and go on,
\* and the class objects, the name bindings and the objects are those from
\* before the statement, a class bound to the same name included.
C9_RejectionHasNoEffect ==
    [][(attempt.id # 0 /\ status[attempt.id] = "Unvalidated"
                       /\ status'[attempt.id] = "Rejected")
          => /\ classes' = classes
             /\ namespace' = namespace
             /\ instances' = instances
             /\ stdout' = stdout
             /\ attempt' = attempt
             /\ error' # NoError
             /\ ~halted']_vars

\* Guess was bound to a class, a later class statement for Guess was rejected
\* and its error caught: Guess is still bound to the earlier class.
C9_Witness ==
    /\ Finished
    /\ status[attempt.id] = "Rejected"
    /\ error = NoError /\ stdout # "" /\ ~halted
    /\ namespace[attempt.name] # 0
    /\ namespace[attempt.name] < attempt.id
    /\ \E c \in classes : c.id = namespace[attempt.name] /\ c.name = attempt.name

\* C10: the same (name, bases, attrs) gets the same outcome every time it is
\* validated, in whatever state of the session: accepted or rejected, and with
\* the same error.
C10_Deterministic ==
    \A e1 \in log : \A e2 \in log :
        (e1.name = e2.name /\ e1.bases = e2.bases /\ e1.attrs = e2.attrs)
            => e1.raised = e2.raised

\* Two class statements with the same name, bases and attrs were executed, the
\* second with the name already bound by the first.
C10_Witness ==
    /\ Len(status) = 2
    /\ Finished
    /\ NonRoot
    /\ status[1] = "Validated"
    /\ Cardinality(log) = 1

\* C11: a class statement goes from Unvalidated to Validated or to Rejected and
\* nowhere else: it starts Unvalidated, the rules are applied once, Rejected is
\* final and Validated is final.
C11_StateMachine ==
    [][/\ Len(status') >= Len(status)
       /\ \A i \in 1 .. Len(status) :
             /\ status[i] \in {"Validated", "Rejected"} => status'[i] = status[i]
             /\ status[i] = "Unvalidated" =>
                   status'[i] \in {"Unvalidated", "Validated", "Rejected"}
             /\ status'[i] # status[i] =>
                   /\ i = attempt.id
                   /\ [name |-> attempt.name, bases |-> attempt.bases,
                       attrs |-> attempt.attrs,
                       raised |-> IF status'[i] = "Validated"
                                  THEN NoError ELSE error'] \in log'
       /\ \A i \in Len(status) + 1 .. Len(status') :
             status'[i] = "Unvalidated"]_vars

\* A rejected class statement whose error was caught, followed by a second
\* class statement that was validated: the first is still Rejected.
C11_Witness ==
    /\ Len(status) = 2
    /\ status[1] = "Rejected"
    /\ status[2] = "Validated"
    /\ stdout # ""

\* C12, as the specification states it: the binding of a name to a class
\* object is written once; no later class statement for the name changes it.
C12_WriteOnce ==
    [][\A n \in Names : namespace[n] # 0 => namespace'[n] = namespace[n]]_vars

\* C12, as the code has it: a name's binding changes only when a class
\* statement for that name is validated, and then the name is bound to the new
\* class object, also when the name was bound before; the class objects that
\* exist stay as they are.
C12_RebindOnSuccess ==
    [][/\ \A n \in Names :
             namespace'[n] # namespace[n] =>
                /\ n = attempt.name
                /\ status[attempt.id] = "Unvalidated"
                /\ status'[attempt.id] = "Validated"
       /\ IF attempt.id # 0 /\ attempt' = attempt
          THEN (status[attempt.id] = "Unvalidated"
                   /\ status'[attempt.id] = "Validated")
                  => namespace'[attempt.name] = attempt.id
          ELSE TRUE
       /\ classes \subseteq classes']_vars

\* Guess was defined twice: the name is bound to the second class object and
\* the first class object is still there.
C12_Witness ==
    /\ namespace["Guess"] = 2
    /\ \E c \in classes : c.id = 1 /\ c.name = "Guess"
    /\ \E c \in classes : c.id = 2 /\ c.name = "Guess"

\* C13: the train and classify rules ask for a function of the required number
\* of parameters: with a string contributor, a class statement (name other
\* than 'Algorithm') whose 'train' or 'classify' is a function of another
\* number of parameters does not pass.
C13_ArityChecked ==
    (Finished /\ NonRoot /\ HasStr(attempt.attrs, "contributor")
        /\ \/ /\ HasFunction(attempt.attrs, "train")
              /\ attempt.attrs["train"].argcount # TrainArgs
           \/ /\ HasFunction(attempt.attrs, "classify")
              /\ attempt.attrs["classify"].argcount # ClassifyArgs)
        => status[attempt.id] # "Validated"

\* A class statement has run its body and its metaclass call has not ended.
InFlight ==
    IF attempt.id = 0 THEN FALSE ELSE status[attempt.id] = "Unvalidated"

\* The class statement executed last has ended, Validated or Rejected.
Ended ==
    IF attempt.id = 0 THEN FALSE
    ELSE status[attempt.id] \in {"Validated", "Rejected"}

\* C14: every class statement ends: one that is Unvalidated can always take its
\* validation step, and (the interpreter going on with the statement) it
\* becomes Validated or Rejected.
C14_Terminates ==
    /\ [](InFlight => ENABLED CallMetaclass)
    /\ InFlight ~> Ended

\* Two class statements were begun and both have ended, rejected.
C14_Witness ==
    /\ Len(status) = 2
    /\ status[1] = "Rejected"
    /\ status[2] = "Rejected"
    /\ Ended

\* What the last class statement raised, NoError when it was validated.
Outcome == IF status[attempt.id] = "Validated" THEN NoError ELSE Raised

\* C15: the rules read the attrs of the class statement only, never its bases:
\* with the same name and attrs, every bases gets the outcome the statement
\* got; so a class derived from the validated, conforming Guess that declares
\* none of contributor, train, classify itself fails with 'missing
\* contributor...', although it would inherit all three.
C15_BasesIgnored ==
    Finished =>
        /\ \A b \in {<<>>} \cup {<<c.id>> : c \in classes} :
              MetaAlgorithm_new(notebook, attempt.name, b,
                                attempt.attrs).raised = Outcome
        /\ (/\ NonRoot
            /\ attempt.bases # <<>>
            /\ \E c \in classes : /\ c.id = attempt.bases[1]
                                  /\ c.name # "Algorithm"
                                  /\ c.attrs = GuessAttrs
            /\ DOMAIN attempt.attrs \cap Keys = {})
              => RejectedWith("MissingContributor")

\* A class derived from the conforming Guess, with an empty body, was rejected
\* for its missing contributor.
C15_Witness ==
    /\ Finished /\ NonRoot
    /\ GuessClass \in classes
    /\ attempt.bases = <<GuessClass.id>>
    /\ attempt.attrs = <<>>
    /\ RejectedWith("MissingContributor")

OtherVersion ==
    IF notebook = "ipynb"
    THEN MetaAlgorithm_new_part_000("MetaAlgorithm", attempt.name,
                                    attempt.bases, attempt.attrs)
    ELSE MetaAlgorithm_new_ipynb("MetaAlgorithm", attempt.name,
                                 attempt.bases, attempt.attrs)

\* C17: the two notebooks' MetaAlgorithm.__new__ decide alike: on the name,
\* bases and attrs of a finished class statement the other notebook's version
\* accepts exactly when this one accepted, building the same class object, and
\* fails on the same rule when this one failed; the messages differ only for
\* the contributor rule, 'missing contributor information' against 'missing
\* contributor'.
C17_VersionsEquivalent ==
    Finished =>
        /\ (status[attempt.id] = "Validated") <=> (OtherVersion.raised = NoError)
        /\ status[attempt.id] = "Validated"
               => \E c \in classes :
                      /\ c.id = attempt.id
                      /\ OtherVersion.result
                             = [metaclass |-> c.metaclass, name |-> c.name,
                                bases |-> c.bases, attrs |-> c.attrs]
        /\ FailureKind(Outcome) = FailureKind(OtherVersion.raised)
        /\ Outcome # OtherVersion.raised
               => /\ FailureKind(Outcome) = "MissingContributor"
                  /\ {Outcome, OtherVersion.raised}
                         = {"missing contributor information",
                            "missing contributor"}
        /\ FailureKind(Outcome) = "MissingContributor"
               => Outcome # OtherVersion.raised

\* A class statement was rejected by the contributor rule, and the other
\* notebook's version rejects it with the other message.
C17_Witness ==
    /\ Finished
    /\ status[attempt.id] = "Rejected"
    /\ Raised \in {"missing contributor information", "missing contributor"}
    /\ OtherVersion.raised
           \in {"missing contributor information", "missing contributor"}
                   \ {Raised}

====
